---- MODULE Spec2Model ----
(***************************************************************************)
(* DamageRoll (src/module/dice/damage-roll.mjs): the term list of a damage *)
(* roll as rewritten by preprocessFormula and configureDamage, the         *)
(* configuration dialog and the chat message built from the roll.          *)
(*                                                                         *)
(* A term is a record.  cls is the host class of the term; number, faces   *)
(* and modifiers are the fields of a dice term (number also of a numeric   *)
(* term); term is the text of a StringTerm, a sequence of characters;      *)
(* isDeterministic and total describe a parenthetical or function term;    *)
(* baseNumber and fantastic are the entries configureDamage keeps in       *)
(* term.options; flavor is the flavor option of the term.                  *)
(***************************************************************************)
EXTENDS Integers, Sequences, FiniteSets, TLC

\* input: the term list the host parsed from the formula, and the options, as
\*   handed to the constructor;  terms, options: this.terms, this.options;
\* evaluated: this._evaluated;  pc: where the caller stands (new, built,
\*   configured, closed, sent);  dialogResult: what the instance configureDialog
\*   returned or threw;  msg: what toMessage handed to the host.
\* History, read by the properties only: pre is the term list at the start of
\*   the last configureDamage (the list the constructor left when there was none),
\*   ran tells whether the last constructor or dialog call ran configureDamage,
\*   origNumber[i] is the number terms[i] had when it entered the list.
VARIABLES input, terms, options, origNumber, pre, ran, pc, dialogResult, msg, evaluated

vars == <<input, terms, options, origNumber, pre, ran, pc, dialogResult, msg, evaluated>>

\* ------------------------------------------------------------------ bounds
\* longest term list the host parser hands to the constructor (Spec)
MaxLen == 3
\* longest term list of intermediate string / parenthetical terms (SpecPre)
MaxRaw == 4

\* ------------------------------------------------------------- JS values
\* a number that is undefined (an absent option, an absent field)
UNDEFINED == 0 - 1

\* the default of options.fantasticMultiplier
DefaultMultiplier == 2

Max(a, b) == IF a >= b THEN a ELSE b

\* ------------------------------------------------------------------ terms
NoTerm ==
  [cls |-> "undefined", number |-> UNDEFINED, faces |-> UNDEFINED, modifiers |-> <<>>,
   term |-> <<>>, isDeterministic |-> FALSE, total |-> UNDEFINED,
   baseNumber |-> UNDEFINED, fantastic |-> FALSE, flavor |-> ""]

DiceTerm(n, f, m) ==
  [NoTerm EXCEPT !.cls = "DiceTerm", !.number = n, !.faces = f, !.modifiers = m]

NumericTerm(n, fl) == [NoTerm EXCEPT !.cls = "NumericTerm", !.number = n, !.flavor = fl]

OperatorTerm == [NoTerm EXCEPT !.cls = "OperatorTerm"]

StringTerm(s) == [NoTerm EXCEPT !.cls = "StringTerm", !.term = s]

ParentheticalTerm(det, tot) ==
  [NoTerm EXCEPT !.cls = "ParentheticalTerm", !.isDeterministic = det, !.total = tot]

FunctionTerm(det, tot) ==
  [NoTerm EXCEPT !.cls = "FunctionTerm", !.isDeterministic = det, !.total = tot]

\* this.terms[i] of a JS array, 1-based here: undefined outside the array
At(ts, i) == IF i \in DOMAIN ts THEN ts[i] ELSE NoTerm

\* ---------------------------------------------------------------- strings
Digits == {"0", "1", "2", "3", "4", "5", "6", "7", "8", "9"}

DigitValue(c) ==
  CASE c = "0" -> 0 [] c = "1" -> 1 [] c = "2" -> 2 [] c = "3" -> 3 [] c = "4" -> 4
    [] c = "5" -> 5 [] c = "6" -> 6 [] c = "7" -> 7 [] c = "8" -> 8 [] c = "9" -> 9

DigitChar(n) ==
  CASE n = 0 -> "0" [] n = 1 -> "1" [] n = 2 -> "2" [] n = 3 -> "3" [] n = 4 -> "4"
    [] n = 5 -> "5" [] n = 6 -> "6" [] n = 7 -> "7" [] n = 8 -> "8" [] n = 9 -> "9"

\* `${n}` of a non-negative integer
RECURSIVE NumberToString(_)
NumberToString(n) ==
  IF n < 10 THEN <<DigitChar(n)>> ELSE Append(NumberToString(n \div 10), DigitChar(n % 10))

\* the number a run of digits denotes
RECURSIVE StringToNumber(_)
StringToNumber(s) ==
  IF s = <<>> THEN 0
  ELSE 10 * StringToNumber(SubSeq(s, 1, Len(s) - 1)) + DigitValue(s[Len(s)])

AllDigits(s) == \A k \in DOMAIN s : s[k] \in Digits

\* length of the longest prefix of s made of digits
RECURSIVE DigitPrefix(_)
DigitPrefix(s) ==
  IF s # <<>> /\ s[1] \in Digits THEN 1 + DigitPrefix(Tail(s)) ELSE 0

\* /^d\d+/.test(s)
IsShorthandDie(s) == Len(s) >= 2 /\ s[1] = "d" /\ s[2] \in Digits

\* s.match(/^[0-9]*d$/)
IsDieCount(s) == Len(s) >= 1 /\ s[Len(s)] = "d" /\ AllDigits(SubSeq(s, 1, Len(s) - 1))

\* s.match(/^d[0-9]*$/)
IsDieFaces(s) == Len(s) >= 1 /\ s[1] = "d" /\ AllDigits(Tail(s))

\* new Roll(formula).terms[0] of a formula without operators or parentheses, as the
\* host classifies it: digits only is a numeric term; digits, "d", digits and any
\* modifiers is a dice term; anything else (a count without faces, such as "2d")
\* stays a string term.
ParseTerm(s) ==
  LET n    == DigitPrefix(s)
      rest == SubSeq(s, n + 2, Len(s))
      f    == DigitPrefix(rest)
  IN  IF s # <<>> /\ AllDigits(s) THEN NumericTerm(StringToNumber(s), "")
      ELSE IF n >= 1 /\ Len(s) > n /\ s[n + 1] = "d" /\ f >= 1
        THEN DiceTerm(StringToNumber(SubSeq(s, 1, n)), StringToNumber(SubSeq(rest, 1, f)),
                      SubSeq(rest, f + 1, Len(rest)))
      ELSE StringTerm(s)

\* ts.splice(start, deleteCount, item), start 1-based
Splice(ts, start, deleteCount, item) ==
  SubSeq(ts, 1, start - 1) \o <<item>> \o SubSeq(ts, start + deleteCount, Len(ts))

\* ------------------------------------------------------ preprocessFormula
\* The array iterator is live: index i advances by one per step and stops at
\* the array's current length, whatever the loop body spliced.
RECURSIVE PreprocessFrom(_, _)
PreprocessFrom(ts, i) ==
  IF i > Len(ts) THEN ts
  ELSE
    LET term     == ts[i]
        nextTerm == At(ts, i + 1)
        prevTerm == At(ts, i - 1)
    IN  IF term.cls = "StringTerm" /\ IsShorthandDie(term.term)
           /\ prevTerm.cls # "ParentheticalTerm"
          THEN PreprocessFrom(Splice(ts, i, 1, ParseTerm(<<"1">> \o term.term)), i + 1)
        ELSE IF term.cls = "ParentheticalTerm" /\ prevTerm.cls = "StringTerm"
                /\ IsDieCount(prevTerm.term)
          THEN IF term.isDeterministic
                 THEN LET merged      == prevTerm.term \o NumberToString(term.total)
                          withMods    == nextTerm.cls = "StringTerm"
                          newFormula  == IF withMods THEN merged \o nextTerm.term ELSE merged
                          deleteCount == IF withMods THEN 3 ELSE 2
                      IN  PreprocessFrom(
                            Splice(ts, i - 1, deleteCount, ParseTerm(newFormula)), i + 1)
                 ELSE PreprocessFrom(ts, i + 1)
        ELSE IF term.cls \in {"ParentheticalTerm", "FunctionTerm"}
                /\ nextTerm.cls = "StringTerm" /\ IsDieFaces(nextTerm.term)
          THEN IF term.isDeterministic
                 THEN PreprocessFrom(
                        Splice(ts, i, 2,
                               ParseTerm(NumberToString(term.total) \o nextTerm.term)),
                        i + 1)
                 ELSE PreprocessFrom(ts, i + 1)
        ELSE PreprocessFrom(ts, i + 1)

preprocessFormula(ts) == PreprocessFrom(ts, 1)

\* -------------------------------------------------------- configureDamage
\* get isFantastic: the option itself, used as a condition
isFantastic(opts) == opts.fantastic = "true"

\* mutant: the multiplier option is ignored
FixedMultiplier(opts) == DefaultMultiplier

\* this.options.fantasticMultiplier ?? 2
FantasticMultiplier(opts) ==
  IF opts.fantasticMultiplier = UNDEFINED THEN DefaultMultiplier ELSE opts.fantasticMultiplier

\* mutant: the reduced multiplier is not kept at 1 or more
UnclampedMultiplier(cm) == cm - 1

\* Powerful fantastic: cm = Math.max(1, cm-1)
PowerfulMultiplier(cm) == Max(1, cm - 1)

\* cb: the bonus dice go to the term at index 0 (i = 1 here) only
BonusDice(opts, i) ==
  IF opts.fantasticBonusDice # 0 /\ i = 1 THEN opts.fantasticBonusDice ELSE 0

\* term.alter(multiply, add) of the host, for a term that is not evaluated and an
\* integer multiply >= 0: number = number * multiply, then number += add
Alter(term, multiply, add) == [term EXCEPT !.number = term.number * multiply + add]

\* term.options.baseNumber = term.options.baseNumber ?? term.number;
\* term.number = term.options.baseNumber
ResetNumber(term) ==
  LET base == IF term.baseNumber = UNDEFINED THEN term.number ELSE term.baseNumber
  IN  [term EXCEPT !.baseNumber = base, !.number = base]

ConfigureDice(term, i, opts) ==
  LET reset == ResetNumber(term)
      cm0   == FantasticMultiplier(opts)
      cm    == IF opts.powerfulfantastic THEN PowerfulMultiplier(cm0) ELSE cm0
  IN  IF isFantastic(opts)
        THEN [Alter(reset, cm, BonusDice(opts, i)) EXCEPT !.fantastic = TRUE]
        ELSE reset

ConfigureNumeric(term, opts) ==
  LET reset == ResetNumber(term)
  IN  IF isFantastic(opts)
        THEN [reset EXCEPT !.number = reset.number * FantasticMultiplier(opts),
                           !.fantastic = TRUE]
        ELSE reset

\* mutant: numeric terms are multiplied whatever options.multiplyNumeric is
ConfigureTermAlwaysNumeric(term, i, opts) ==
  IF term.cls = "DiceTerm" THEN ConfigureDice(term, i, opts)
  ELSE IF term.cls = "NumericTerm" THEN ConfigureNumeric(term, opts)
  ELSE term

\* the body of the loop over this.terms.entries()
ConfigureTerm(term, i, opts) ==
  IF term.cls = "DiceTerm" THEN ConfigureDice(term, i, opts)
  ELSE IF opts.multiplyNumeric /\ term.cls = "NumericTerm" THEN ConfigureNumeric(term, opts)
  ELSE term

\* flatBonus += term.number * term.faces, over the first n terms
RECURSIVE FlatBonus(_, _, _)
FlatBonus(ts, opts, n) ==
  IF n = 0 THEN 0
  ELSE FlatBonus(ts, opts, n - 1)
       + (IF ts[n].cls = "DiceTerm" /\ isFantastic(opts) /\ opts.powerfulfantastic
            THEN ResetNumber(ts[n]).number * ts[n].faces
            ELSE 0)

\* game.i18n.localize("MARVEL_MULTIVERSE.Powerfulfantastic")
PowerfulFlavor == "Powerfulfantastic"

\* the terms pushed after the loop: the powerful fantastic bonus, then the terms
\* of options.fantasticBonusDamage (kept in the options as the host parses it)
Pushed(ts, opts) ==
  LET flatBonus == FlatBonus(ts, opts, Len(ts))
      flat  == IF opts.powerfulfantastic /\ flatBonus > 0
                 THEN <<OperatorTerm, NumericTerm(flatBonus, PowerfulFlavor)>>
                 ELSE <<>>
      extra == opts.fantasticBonusDamage
      bonus == IF isFantastic(opts) /\ extra # <<>>
                 THEN (IF extra[1].cls # "OperatorTerm" THEN <<OperatorTerm>> ELSE <<>>)
                      \o extra
                 ELSE <<>>
  IN  flat \o bonus

configureDamage(ts, opts) ==
  (IF ts = <<>> THEN <<>> ELSE [i \in 1..Len(ts) |-> ConfigureTerm(ts[i], i, opts)])
  \o Pushed(ts, opts)

\* the number each term of a list was given when it was created
Numbers(ts) == IF ts = <<>> THEN <<>> ELSE [i \in 1..Len(ts) |-> ts[i].number]

\* ------------------------------------------------------------ constructor
\* !this.options.preprocessed
RunsPreprocess(opts) == ~opts.preprocessed

\* mutant: rolls without the fantastic option are configured too
RunsConfigureAlways(opts) == ~opts.configured

\* (this.options.fantastic !== undefined) && !this.options.configured
RunsConfigure(opts) == opts.fantastic # "undefined" /\ ~opts.configured

\* the term list the constructor leaves, before configureDamage
Preprocessed(ts, opts) == IF RunsPreprocess(opts) THEN preprocessFormula(ts) ELSE ts

\* --------------------------------------------------------------- toMessage
\* the loop over rolls: rollMode = roll.options.rollMode, for each roll
LoopRollMode(rolls, rollMode) ==
  IF rolls = <<>> THEN rollMode ELSE rolls[Len(rolls)].rollMode

\* isFantastic ||= roll.isFantastic
AnyFantastic(rolls) == \E k \in DOMAIN rolls : isFantastic(rolls[k])

\* static toMessage: what is handed to the host.  created: cls.create was called
\* (with {rollMode}); applied: msg.applyRollMode(rollMode) was called.
toMessage(rolls, messageData, rollMode, create) ==
  LET looped == LoopRollMode(rolls, rollMode)
      mode   == IF looped = "undefined" THEN messageData.rollMode ELSE looped
  IN  [sent     |-> TRUE,
       passed   |-> rollMode,
       create   |-> create,
       created  |-> create,
       applied  |-> ~create /\ mode # "undefined",
       rollMode |-> mode,
       fantasticLabel |-> AnyFantastic(rolls)]

NoMessage ==
  [sent |-> FALSE, passed |-> "undefined", create |-> FALSE, created |-> FALSE,
   applied |-> FALSE, rollMode |-> "undefined", fantasticLabel |-> FALSE]

\* ---------------------------------------------------------- configureDialog
\* what the static configureDialog resolves: the rolls, or null on close
DialogResolves(button, rolls) ==
  IF button = "close" THEN [isNull |-> TRUE, rolls |-> <<>>]
  ELSE [isNull |-> FALSE, rolls |-> rolls]

\* return rolls[0] ?? null: reading an index of null throws a TypeError
FirstOrNull(resolved) ==
  IF resolved.isNull THEN "TypeError"
  ELSE IF resolved.rolls = <<>> THEN "null"
  ELSE resolved.rolls[1]

\* ------------------------------------------------------------------ inputs
RECURSIVE SeqsUpTo(_, _)
SeqsUpTo(S, n) == IF n = 0 THEN {<<>>} ELSE SeqsUpTo(S, n - 1) \cup [1..n -> S]

\* the host parser splits a formula at its terms: no two string terms are adjacent
NoAdjacentStrings(ts) ==
  \A k \in 1..(Len(ts) - 1) : ~(ts[k].cls = "StringTerm" /\ ts[k + 1].cls = "StringTerm")

DefaultOptions ==
  [fantastic |-> "undefined", powerfulfantastic |-> FALSE, fantasticMultiplier |-> UNDEFINED,
   fantasticBonusDice |-> 0, multiplyNumeric |-> FALSE, fantasticBonusDamage |-> <<>>,
   preprocessed |-> FALSE, configured |-> FALSE, rollMode |-> "undefined"]

\* terms of a parsed damage formula
BasicTerms ==
  {DiceTerm(2, 4, <<>>), DiceTerm(0, 6, <<>>), NumericTerm(3, ""), OperatorTerm,
   StringTerm(<<"d", "6">>)}

\* intermediate terms the host leaves around parentheses
RawTerms ==
  {StringTerm(<<"d", "6">>), StringTerm(<<"2", "d">>), StringTerm(<<"k", "h">>),
   ParentheticalTerm(TRUE, 2), ParentheticalTerm(FALSE, UNDEFINED), OperatorTerm}

\* options of a fantastic or plain damage roll
RollOptions ==
  {[DefaultOptions EXCEPT !.fantastic = f, !.powerfulfantastic = p,
                           !.fantasticMultiplier = m, !.fantasticBonusDice = b,
                           !.multiplyNumeric = n] :
     f \in {"undefined", "true"}, p \in BOOLEAN, m \in {UNDEFINED, 1, 3}, b \in {0, 1},
     n \in BOOLEAN}

\* options of a fantastic hit with an extra damage term, "1d6"
ExtraDamageOptions ==
  {[DefaultOptions EXCEPT !.fantastic = "true", !.powerfulfantastic = p,
                           !.fantasticBonusDice = b, !.multiplyNumeric = n,
                           !.fantasticBonusDamage = <<DiceTerm(1, 6, <<>>)>>] :
     p \in BOOLEAN, b \in {0, 1}, n \in BOOLEAN}

\* options of a roll rebuilt from stored data: the flags may be set already
StoredOptions ==
  {[DefaultOptions EXCEPT !.fantastic = f, !.multiplyNumeric = TRUE,
                           !.preprocessed = pp, !.configured = cc] :
     f \in {"undefined", "true", "false"}, pp \in BOOLEAN, cc \in BOOLEAN}

RollModes == {"publicroll"}

\* form.bonus.value as the host parses it: empty, or "+1"
BonusFormulas == {<<>>, <<OperatorTerm, NumericTerm(1, "")>>}

\* ------------------------------------------------------------------- state
Start(ts, opts) ==
  /\ input = [terms |-> ts, options |-> opts]
  /\ terms = ts
  /\ options = opts
  /\ origNumber = Numbers(ts)
  /\ pre = ts
  /\ ran = FALSE
  /\ pc = "new"
  /\ dialogResult = "none"
  /\ msg = NoMessage
  /\ evaluated = FALSE

Init ==
  \E ts \in SeqsUpTo(BasicTerms, MaxLen), opts \in RollOptions \cup ExtraDamageOptions \cup StoredOptions :
    Start(ts, opts)

InitPre ==
  \E ts \in {r \in SeqsUpTo(RawTerms, MaxRaw) : NoAdjacentStrings(r)},
     opts \in {DefaultOptions, [DefaultOptions EXCEPT !.fantastic = "true"]} :
    Start(ts, opts)

\* new DamageRoll(formula, data, options)
Construct ==
  /\ pc = "new"
  /\ LET ts1 == Preprocessed(input.terms, input.options)
         o1  == [input.options EXCEPT !.preprocessed = TRUE]
     IN  /\ pre' = ts1
         /\ IF RunsConfigure(o1)
              THEN /\ terms' = configureDamage(ts1, o1)
                   /\ options' = [o1 EXCEPT !.configured = TRUE]
                   /\ origNumber' = Numbers(ts1) \o Numbers(Pushed(ts1, o1))
                   /\ ran' = TRUE
              ELSE /\ terms' = ts1
                   /\ options' = o1
                   /\ origNumber' = Numbers(ts1)
                   /\ ran' = FALSE
  /\ pc' = "built"
  /\ UNCHANGED <<input, dialogResult, msg, evaluated>>

\* configureDialog, a button pressed: the callback resolves
\* rolls.map(r => r._onDialogSubmit(html, fantastic, true)) and the instance
\* method returns rolls[0]
DialogButton(fantastic, bonus, rollMode) ==
  /\ pc = "built"
  /\ LET bonusTerms == preprocessFormula(bonus)
         ts1 == IF bonus # <<>>
                  THEN (IF bonusTerms[1].cls # "OperatorTerm"
                          THEN Append(terms, OperatorTerm) ELSE terms) \o bonusTerms
                  ELSE terms
         o1  == [options EXCEPT !.fantastic = IF fantastic THEN "true" ELSE "false",
                                !.rollMode = rollMode]
     IN  /\ pre' = ts1
         /\ terms' = configureDamage(ts1, o1)
         /\ options' = [o1 EXCEPT !.configured = TRUE]
         /\ origNumber' = origNumber \o Numbers(SubSeq(ts1, Len(terms) + 1, Len(ts1)))
                            \o Numbers(Pushed(ts1, o1))
  /\ ran' = TRUE
  /\ dialogResult' = FirstOrNull(DialogResolves(IF fantastic THEN "fantastic" ELSE "normal",
                                                <<"roll">>))
  /\ pc' = "configured"
  /\ UNCHANGED <<input, msg, evaluated>>

\* configureDialog, the dialog closed: the static method resolves null and the
\* instance method reads rolls[0] of it
DialogClose ==
  /\ pc = "built"
  /\ dialogResult' = FirstOrNull(DialogResolves("close", <<"roll">>))
  /\ pc' = "closed"
  /\ UNCHANGED <<input, terms, options, origNumber, pre, ran, msg, evaluated>>

\* roll.toMessage(messageData, {rollMode, create})
ToMessage(rollMode, create, messageData) ==
  /\ pc \in {"built", "configured"}
  /\ msg' = toMessage(<<options>>, messageData, rollMode, create)
  /\ evaluated' = TRUE
  /\ pc' = "sent"
  /\ UNCHANGED <<input, terms, options, origNumber, pre, ran, dialogResult>>

Next ==
  \/ Construct
  \/ \E fantastic \in BOOLEAN, bonus \in BonusFormulas, rollMode \in RollModes :
       DialogButton(fantastic, bonus, rollMode)
  \/ DialogClose
  \/ \E rollMode \in {"undefined", "gmroll"}, create \in BOOLEAN,
        md \in {"undefined", "selfroll"} :
       ToMessage(rollMode, create, [rollMode |-> md])

Spec == Init /\ [][Next]_vars

SpecPre == InitPre /\ [][Next]_vars

\* ------------------------------------------------------------------ claims
\* the multiplier of a fantastic hit: the option, 2 when it is absent
Multiplier == IF options.fantasticMultiplier = UNDEFINED THEN 2 ELSE options.fantasticMultiplier

\* the multiplier of a powerful fantastic hit
ReducedMultiplier == IF Multiplier - 1 >= 1 THEN Multiplier - 1 ELSE 1

\* the terms the roll had when the last configureDamage started
Configured == 1..Len(pre)

DiceOf == {i \in Configured : pre[i].cls = "DiceTerm"}

NumericOf == {i \in Configured : pre[i].cls = "NumericTerm"}

\* the bonus dice the term at index 0 (1 here) receives
FirstTermBonus(i) == IF i = 1 THEN options.fantasticBonusDice ELSE 0

\* the terms the last configureDamage appended
Appended == SubSeq(terms, Len(pre) + 1, Len(terms))

\* sum over the dice terms of baseNumber x faces
RECURSIVE MaximizedDice(_)
MaximizedDice(n) ==
  IF n = 0 THEN 0
  ELSE MaximizedDice(n - 1) + (IF n \in DiceOf THEN origNumber[n] * pre[n].faces ELSE 0)

\* the '+' and the numeric term of the powerful fantastic bonus
FlatBonusPair(sum) ==
  <<OperatorTerm, NumericTerm(sum, PowerfulFlavor)>>

\* the terms of options.fantasticBonusDamage as appended on a fantastic hit
ExtraDamage ==
  IF options.fantasticBonusDamage = <<>> THEN <<>>
  ELSE IF options.fantasticBonusDamage[1].cls = "OperatorTerm"
    THEN options.fantasticBonusDamage
  ELSE <<OperatorTerm>> \o options.fantasticBonusDamage

\* C1, as stated: after configureDamage on a fantastic hit without the powerful
\* fantastic rule every dice term has number = baseNumber x multiplier (2 when
\* the option is absent); when fantastic is false every dice term has its base
\* number.
C1_Original ==
  ran =>
    \A i \in DiceOf :
      /\ (options.fantastic = "true" /\ ~options.powerfulfantastic)
           => (terms[i].baseNumber = origNumber[i]
               /\ terms[i].number = origNumber[i] * Multiplier)
      /\ options.fantastic = "false" => terms[i].number = origNumber[i]

\* C1, amended: as C1, for the dice terms the roll had when configureDamage
\* started, and the dice term at index 0 has options.fantasticBonusDice more
\* dice on a fantastic hit.
C1_FantasticDice ==
  ran =>
    \A i \in DiceOf :
      /\ (options.fantastic = "true" /\ ~options.powerfulfantastic)
           => (terms[i].baseNumber = origNumber[i]
               /\ terms[i].number = origNumber[i] * Multiplier + FirstTermBonus(i))
      /\ options.fantastic = "false" => terms[i].number = origNumber[i]

C1_Witness ==
  /\ ran /\ options.fantastic = "true" /\ ~options.powerfulfantastic
  /\ options.fantasticMultiplier = 3 /\ options.fantasticBonusDice = 1
  /\ {1, 3} \subseteq DiceOf
  /\ origNumber[1] = 2 /\ terms[1].number = 7
  /\ origNumber[3] = 2 /\ terms[3].number = 6

\* C2: on a fantastic hit with fantasticBonusDice = n > 0, a roll that holds a
\* dice term gets exactly n bonus dice, on one dice term, on top of the
\* multiplied counts, wherever its dice terms stand.
C2_BonusDiceAdded ==
  (ran /\ options.fantastic = "true" /\ options.fantasticBonusDice > 0 /\ DiceOf # {}) =>
    LET cm == IF options.powerfulfantastic THEN ReducedMultiplier ELSE Multiplier
    IN  \E j \in DiceOf :
          /\ terms[j].number = origNumber[j] * cm + options.fantasticBonusDice
          /\ \A i \in DiceOf \ {j} : terms[i].number = origNumber[i] * cm

\* C3, as stated: on a powerful fantastic hit every dice term has number =
\* baseNumber x max(1, multiplier - 1) and, the roll holding dice, one '+' and
\* one numeric term equal to the sum of baseNumber x faces are appended; when
\* fantastic is false or the roll has no dice no such terms are appended.
C3_Original ==
  ran =>
    /\ (options.fantastic = "true" /\ options.powerfulfantastic) =>
         /\ \A i \in DiceOf : terms[i].number = origNumber[i] * ReducedMultiplier
         /\ DiceOf # {} =>
              /\ Len(Appended) >= 2
              /\ SubSeq(Appended, 1, 2) = FlatBonusPair(MaximizedDice(Len(pre)))
              /\ \A k \in 3..Len(Appended) : Appended[k].flavor # PowerfulFlavor
    /\ (options.fantastic # "true" \/ DiceOf = {}) =>
         \A k \in DOMAIN Appended : Appended[k].flavor # PowerfulFlavor

\* C3, amended: on a powerful fantastic hit every dice term the roll had has
\* number = baseNumber x max(1, multiplier - 1), plus fantasticBonusDice for the
\* dice term at index 0; when the sum of baseNumber x faces over the dice terms
\* is positive, one '+' and one numeric term equal to that sum are appended,
\* followed only by the terms of fantasticBonusDamage; when the sum is 0 only
\* the terms of fantasticBonusDamage are appended; when fantastic is false
\* nothing is appended.
C3_PowerfulFantastic ==
  ran =>
    /\ (options.fantastic = "true" /\ options.powerfulfantastic) =>
         /\ \A i \in DiceOf :
              terms[i].number = origNumber[i] * ReducedMultiplier + FirstTermBonus(i)
         /\ Appended = (IF MaximizedDice(Len(pre)) > 0
                          THEN FlatBonusPair(MaximizedDice(Len(pre))) ELSE <<>>)
                       \o ExtraDamage
    /\ options.fantastic # "true" => Appended = <<>>

C3_Witness ==
  /\ ran /\ options.fantastic = "true" /\ options.powerfulfantastic
  /\ options.fantasticMultiplier = 1 /\ options.fantasticBonusDice = 1
  /\ {1, 3} \subseteq DiceOf
  /\ origNumber[1] = 2 /\ terms[1].number = 3
  /\ origNumber[3] = 2 /\ terms[3].number = 2
  /\ Len(Appended) >= 2 /\ Appended[2].cls = "NumericTerm" /\ Appended[2].number = 16

\* C4: the instance configureDialog returns null when the dialog is closed
\* without a button, and the configured roll otherwise; it never fails.
C4_ClosedReturnsNull ==
  /\ pc = "closed" => dialogResult = "null"
  /\ pc = "configured" => dialogResult = "roll"
  /\ dialogResult # "TypeError"

\* C5: a rollMode passed to toMessage in the options is the roll mode of the
\* message: the one handed to the creation call when create is true, the one
\* applied to the message when create is false.
C5_PassedRollModeUsed ==
  (msg.sent /\ msg.passed # "undefined") =>
    /\ msg.rollMode = msg.passed
    /\ msg.create => msg.created
    /\ ~msg.create => msg.applied

\* C6: after configureDamage every numeric term of the formula has number =
\* baseNumber x multiplier (2 when the option is absent) when multiplyNumeric
\* is true and the roll is a fantastic hit, and its base value otherwise.
C6_NumericTerms ==
  ran =>
    \A i \in NumericOf :
      terms[i].number =
        IF options.multiplyNumeric /\ options.fantastic = "true"
          THEN origNumber[i] * Multiplier
          ELSE origNumber[i]

C6_Witness ==
  /\ ran /\ options.multiplyNumeric /\ options.fantastic = "true"
  /\ options.fantasticMultiplier = 3
  /\ \E i \in NumericOf : origNumber[i] = 3 /\ terms[i].number = 9

\* a shorthand dX string term not directly preceded by a parenthetical term
PendingShorthand(ts, i) ==
  /\ ts[i].cls = "StringTerm" /\ IsShorthandDie(ts[i].term)
  /\ At(ts, i - 1).cls # "ParentheticalTerm"

\* a deterministic parenthetical term next to a matching string term
PendingMerge(ts, i) ==
  /\ ts[i].cls = "ParentheticalTerm" /\ ts[i].isDeterministic
  /\ \/ At(ts, i - 1).cls = "StringTerm" /\ IsDieCount(At(ts, i - 1).term)
     \/ At(ts, i + 1).cls = "StringTerm" /\ IsDieFaces(At(ts, i + 1).term)

\* C7: after preprocessFormula no shorthand dX string term that is not
\* directly preceded by a parenthetical term is left, and no deterministic
\* parenthetical term is left next to a matching string term, at any position
\* of the term list.
C7_AllRewritten ==
  (pc = "built" /\ ~input.options.preprocessed) =>
    \A i \in DOMAIN pre : ~PendingShorthand(pre, i) /\ ~PendingMerge(pre, i)

\* C8: the constructor preprocesses unless options.preprocessed was set and
\* configures exactly when options.fantastic is defined and options.configured
\* was not set: without a fantastic option the dice and numeric terms are as
\* parsed and the configured flag is as given; with both flags set the term
\* list is as given; every constructed roll has options.preprocessed = true.
C8_Constructor ==
  pc = "built" =>
    LET given == input.options
        parsed == input.terms
        configures == given.fantastic # "undefined" /\ ~given.configured
    IN  /\ options.preprocessed
        /\ options.configured = (given.configured \/ given.fantastic # "undefined")
        /\ given.fantastic = "undefined" =>
             \A i \in DOMAIN parsed :
               parsed[i].cls \in {"DiceTerm", "NumericTerm"} => terms[i] = parsed[i]
        /\ (given.preprocessed /\ given.configured) => terms = parsed
        /\ \A i \in DOMAIN parsed :
             (parsed[i].cls = "StringTerm" /\ IsShorthandDie(parsed[i].term)) =>
               IF given.preprocessed THEN terms[i] = parsed[i]
               ELSE terms[i].cls = "DiceTerm" /\ origNumber[i] = 1
        /\ \A i \in DOMAIN parsed :
             terms[i].cls = "DiceTerm" => (terms[i].baseNumber # UNDEFINED) = configures

C8_Witness ==
  /\ pc = "built" /\ input.options.fantastic = "undefined" /\ ~input.options.preprocessed
  /\ Len(terms) = 3
  /\ input.terms[1].cls = "StringTerm" /\ terms[1] = DiceTerm(1, 6, <<>>)
  /\ terms[3] = DiceTerm(2, 4, <<>>)
  /\ ~options.configured

====
